---- MODULE Spec2Model ----
(***************************************************************************)
(* StegoUTF8 (src/src/stego.ts) and its command line (src/src/index.ts).   *)
(*                                                                         *)
(* A JavaScript string is modelled as a sequence of UTF-16 code units      *)
(* (naturals).  Only characters of the Basic Multilingual Plane are        *)
(* drawn, so the code-point iteration of [...s] and the code-unit          *)
(* indexing of s[i], slice and split('') see the same elements.  A binary  *)
(* string of '0'/'1' characters is modelled as a sequence over {0, 1}.     *)
(***************************************************************************)
EXTENDS Integers, Sequences, FiniteSets, TLC

VARIABLES pc, host, source, clear, position, k, encoded, count, embedded,
          decoded, argv, args, output

vars == <<pc, host, source, clear, position, k, encoded, count, embedded,
          decoded, argv, args, output>>

(***************************************************************************)
(* Bounds of the model.                                                    *)
(***************************************************************************)
MaxHostLen == 3
MaxClearLen == 2
MaxK == 2
MaxTextLen == 9

(***************************************************************************)
(* Program constants.                                                      *)
(***************************************************************************)
ZWSP == 8203
ZWNBSP == 65279
NL == 10
TOP == 0
BOTTOM == 1
RANDOM == 2
NTHLINES == 3
RANDOMINLINE == 4
ByteWidth == 8

Position == {TOP, BOTTOM, RANDOM, NTHLINES, RANDOMINLINE}

(***************************************************************************)
(* The glyph alphabet.                                                     *)
(***************************************************************************)
character_map(bit) == IF bit = 0 THEN ZWSP ELSE ZWNBSP

\* space_map is built by the constructor as the inverse of character_map; a
\* key that is absent reads as undefined, modelled by the value 2 (no bit).
space_map(char) ==
    IF char = ZWSP THEN 0 ELSE IF char = ZWNBSP THEN 1 ELSE 2

\* [...encoded].map(char => this.space_map[char]).join(''): join renders an
\* undefined element as the empty string, so only the bits of the hidden
\* characters are left.
BinaryOf(s) ==
    SelectSeq([i \in 1..Len(s) |-> space_map(s[i])], LAMBDA bit : bit # 2)

hidden_characters == {character_map(0), character_map(1)}

\* The variant that knows only U+200B as a hidden character.
HasOnlyZwsp(char) == char = ZWSP

\* The variant that finds no character hidden.
HasNever(char) == FALSE

\* this.hidden_characters.has(char)
Has(char) == char \in hidden_characters

(***************************************************************************)
(* String helpers of the JavaScript runtime, as the code uses them.        *)
(***************************************************************************)
RECURSIVE toString2(_)
\* Number.prototype.toString(2) of a non-negative integer
toString2(n) == IF n < 2 THEN <<n>> ELSE toString2(n \div 2) \o <<n % 2>>

\* The variant that does not pad.
PadStartNone(s) == s

\* String.prototype.padStart(8, '0'): pads on the left, never truncates
padStart(s) ==
    IF Len(s) >= ByteWidth
    THEN s
    ELSE [i \in 1..ByteWidth |->
            IF i <= ByteWidth - Len(s) THEN 0 ELSE s[i - (ByteWidth - Len(s))]]

RECURSIVE parseInt2(_)
\* parseInt(byte, 2) of a string of binary digits, most significant first
parseInt2(byte) ==
    IF Len(byte) = 0 THEN 0
    ELSE 2 * parseInt2(SubSeq(byte, 1, Len(byte) - 1)) + byte[Len(byte)]

\* s.slice(from): from the 0-based index to the end
SliceFrom(s, from) == SubSeq(s, from + 1, Len(s))

\* s.slice(0, to): the first `to` code units
SliceTo(s, to) == SubSeq(s, 1, to)

RECURSIVE Split(_)
\* s.split('\n'): the lines of s; the empty string gives one empty line
Split(s) ==
    IF \A i \in 1..Len(s) : s[i] # NL
    THEN <<s>>
    ELSE LET j == CHOOSE i \in 1..Len(s) :
                     s[i] = NL /\ \A h \in 1..(i - 1) : s[h] # NL
         IN  <<SliceTo(s, j - 1)>> \o Split(SliceFrom(s, j))

RECURSIVE Join(_)
\* lines.join('\n')
Join(lines) ==
    IF Len(lines) = 0 THEN <<>>
    ELSE IF Len(lines) = 1 THEN lines[1]
    ELSE lines[1] \o <<NL>> \o Join(Tail(lines))

\* Math.floor(Math.random() * len): Math.random() is in [0, 1), so every
\* index below len can come out, and 0 when len is 0.
RandomIndex(len) == IF len = 0 THEN {0} ELSE 0..(len - 1)

(***************************************************************************)
(* StegoUTF8                                                               *)
(***************************************************************************)
RECURSIVE Binary(_)
\* clear.split('').map(c => c.charCodeAt(0).toString(2).padStart(8,'0')).join('')
Binary(s) ==
    IF Len(s) = 0 THEN <<>>
    ELSE padStart(toString2(Head(s))) \o Binary(Tail(s))

spaceEncode(s) ==
    IF Len(s) = 0 THEN <<>>
    ELSE LET binary == Binary(s)
         IN  [i \in 1..Len(binary) |-> character_map(binary[i])]

RECURSIVE Match8(_)
\* binary.match(/.{8}/g)?.map(byte => String.fromCharCode(parseInt(byte, 2)))
Match8(binary) ==
    IF Len(binary) < ByteWidth THEN <<>>
    ELSE <<parseInt2(SliceTo(binary, ByteWidth))>>
            \o Match8(SliceFrom(binary, ByteWidth))

\* The variant that also converts the trailing group of fewer than 8 bits.
SpaceDecodeKeepTail(s) ==
    LET binary == BinaryOf(s)
        whole  == Len(binary) - (Len(binary) % ByteWidth)
    IN  Match8(binary) \o
        (IF whole < Len(binary)
         THEN <<parseInt2(SliceFrom(binary, whole))>> ELSE <<>>)

spaceDecode(s) ==
    IF Len(s) = 0 THEN <<>>
    ELSE LET binary == BinaryOf(s)
         IN  Match8(binary)

zeroDecode(s) == spaceDecode(SelectSeq(s, LAMBDA char : Has(char)))

\* The variant that strips only U+200B.
CleanOnlyZwsp(s) == SelectSeq(s, LAMBDA char : char # ZWSP)

cleanString(s) == SelectSeq(s, LAMBDA char : ~Has(char))

\* source.slice(0, i) + encoded + source.slice(i)
Splice(s, enc, i) == SliceTo(s, i) \o enc \o SliceFrom(s, i)

RECURSIVE NthLinesLoop(_, _, _, _, _)
\* The for loop of case Position.NTHLINES; i is the 1-based position of the
\* line the code indexes with i - 1, c is the value of count.
NthLinesLoop(lines, enc, kk, i, c) ==
    IF i > Len(lines) THEN lines
    ELSE IF c = kk
         THEN NthLinesLoop([lines EXCEPT ![i] = @ \o enc], enc, kk, i + 1, 1)
         ELSE NthLinesLoop(lines, enc, kk, i + 1, c + 1)

\* The variant whose counter starts at k instead of 0.
NthLinesFromK(s, enc, kk) == Join(NthLinesLoop(Split(s), enc, kk, 1, kk))

NthLines(s, enc, kk) == Join(NthLinesLoop(Split(s), enc, kk, 1, 0))

RECURSIVE InLineLoop(_, _, _, _)
\* The for loop of case Position.RANDOMINLINE (i += k), as the set of the
\* line lists the random offsets can produce.
InLineLoop(lines, enc, kk, i) ==
    IF i > Len(lines) THEN {lines}
    ELSE UNION { InLineLoop([lines EXCEPT ![i] = Splice(@, enc, r)],
                            enc, kk, i + kk) :
                 r \in RandomIndex(Len(lines[i])) }

\* The variant whose loop starts at the line of index k instead of 0.
RandomInLineFromK(s, enc, kk) ==
    { Join(ls) : ls \in InLineLoop(Split(s), enc, kk, 1 + kk) }

RandomInLine(s, enc, kk) ==
    { Join(ls) : ls \in InLineLoop(Split(s), enc, kk, 1) }

(***************************************************************************)
(* Inputs.                                                                 *)
(***************************************************************************)
Seqs(S, n) == UNION { [1..m -> S] : m \in 0..n }

\* "a\nb\nc\nd"
ScenarioHost == <<97, NL, 98, NL, 99, NL, 100>>

\* Host texts over 'a', line break and the two hidden characters.
Hosts == Seqs({97, NL, ZWSP, ZWNBSP}, MaxHostLen) \cup {ScenarioHost}

\* Texts to hide over 'X', U+00FF and U+0425 (a code point above 255).
Clears == Seqs({88, 255, 1061}, MaxClearLen)

\* Texts handed to zeroDecode.
Texts == Seqs({97, ZWSP, ZWNBSP}, MaxTextLen)

\* A JavaScript number that may be NaN.
Num(n) == [nan |-> FALSE, val |-> n]
NaN == [nan |-> TRUE, val |-> 0]
Falsy(x) == x.nan \/ x.val = 0

\* A numeric command-line option: absent, a non-numeric word, or the decimal
\* digits of val.
Absent == [given |-> FALSE, numeric |-> FALSE, val |-> 0]
Word == [given |-> TRUE, numeric |-> FALSE, val |-> 0]
Digits(n) == [given |-> TRUE, numeric |-> TRUE, val |-> n]

\* parseInt(process.argv[i + 1]) of such an option value
parseInt(opt) == IF opt.numeric THEN Num(opt.val) ELSE NaN

NoArgv == [src |-> "api", text |-> <<>>, toHide |-> <<>>, p |-> Absent,
           kopt |-> Absent]

NoArgs == [toHide |-> <<>>, fileSource |-> FALSE, clearSource |-> <<>>,
           position |-> Num(NTHLINES), k |-> Num(1)]

\* Command lines of an encode run (-E): the source is given with -c, with -f
\* (a readable or an unreadable file), with both or not at all; text is the
\* -c string or the content of the -f file.
Argvs == [src : {"none", "c", "f", "unreadable", "both"},
          text : Hosts,
          toHide : Clears,
          p : {Absent, Word} \cup { Digits(n) : n \in 0..(RANDOMINLINE + 1) },
          kopt : {Absent} \cup { Digits(n) : n \in 0..MaxK }]

(***************************************************************************)
(* zeroEncode(source, clear, position, k)                                  *)
(***************************************************************************)
Init ==
    /\ pc = "zeroEncode"
    /\ host \in Hosts
    /\ source = host
    /\ clear \in Clears
    /\ position \in Position
    /\ k \in 1..MaxK
    /\ encoded = <<>>
    /\ count = 0
    /\ embedded = <<>>
    /\ decoded = <<>>
    /\ argv = NoArgv
    /\ args = NoArgs
    /\ output = <<>>

Return(text) ==
    /\ embedded' = text
    /\ encoded' = spaceEncode(clear)
    /\ pc' = "return"
    /\ UNCHANGED <<host, source, clear, position, k, count, decoded, argv, args, output>>

ZeroEncodeTop ==
    /\ pc = "zeroEncode"
    /\ position = TOP
    /\ Return(spaceEncode(clear) \o source)

ZeroEncodeBottom ==
    /\ pc = "zeroEncode"
    /\ position = BOTTOM
    /\ Return(source \o spaceEncode(clear))

\* case Position.RANDOM: entering the while loop
ZeroEncodeRandom ==
    /\ pc = "zeroEncode"
    /\ position = RANDOM
    /\ encoded' = spaceEncode(clear)
    /\ pc' = "while"
    /\ UNCHANGED <<host, source, clear, position, k, count, embedded, decoded,
                   argv, args, output>>

\* One iteration of the while loop.  source[randomIndex] is undefined when
\* the index is not below the length, and the set does not hold undefined.
RandomIteration ==
    /\ pc = "while"
    /\ count < k
    /\ \E randomIndex \in RandomIndex(Len(source)) :
          IF randomIndex >= Len(source) \/ ~Has(source[randomIndex + 1])
          THEN /\ source' = Splice(source, encoded, randomIndex)
               /\ count' = count + 1
          ELSE UNCHANGED <<source, count>>
    /\ UNCHANGED <<pc, host, clear, position, k, encoded, embedded, decoded,
                   argv, args, output>>

\* The loop condition fails: embedded = source, and the function returns.
RandomReturn ==
    /\ pc = "while"
    /\ ~(count < k)
    /\ embedded' = source
    /\ pc' = "return"
    /\ UNCHANGED <<host, source, clear, position, k, encoded, count, decoded,
                   argv, args, output>>

ZeroEncodeNthLines ==
    /\ pc = "zeroEncode"
    /\ position = NTHLINES
    /\ Return(NthLines(source, spaceEncode(clear), k))

ZeroEncodeRandomInLine ==
    /\ pc = "zeroEncode"
    /\ position = RANDOMINLINE
    /\ \E text \in RandomInLine(source, spaceEncode(clear), k) : Return(text)

\* default: a position outside the enumeration
ZeroEncodeDefault ==
    /\ pc = "zeroEncode"
    /\ position \notin Position
    /\ Return(source)

Next ==
    \/ ZeroEncodeTop
    \/ ZeroEncodeBottom
    \/ ZeroEncodeRandom
    \/ RandomIteration
    \/ RandomReturn
    \/ ZeroEncodeNthLines
    \/ ZeroEncodeRandomInLine

Spec == Init /\ [][Next]_vars

(***************************************************************************)
(* zeroDecode(source)                                                      *)
(***************************************************************************)
InitDecode ==
    /\ pc = "zeroDecode"
    /\ source \in Texts
    /\ host = source
    /\ clear = <<>>
    /\ position = TOP
    /\ k = 1
    /\ encoded = <<>>
    /\ count = 0
    /\ embedded = <<>>
    /\ decoded = <<>>
    /\ argv = NoArgv
    /\ args = NoArgs
    /\ output = <<>>

ZeroDecode ==
    /\ pc = "zeroDecode"
    /\ decoded' = zeroDecode(source)
    /\ pc' = "return"
    /\ UNCHANGED <<host, source, clear, position, k, encoded, count, embedded,
                   argv, args, output>>

NextDecode == ZeroDecode

SpecDecode == InitDecode /\ [][NextDecode]_vars

(***************************************************************************)
(* The command line: main, checkArgs and encode of index.ts, for a command *)
(* line that carries -E.                                                   *)
(***************************************************************************)
InitCli ==
    /\ pc = "main"
    /\ argv \in Argvs
    /\ args = NoArgs
    /\ host = <<>>
    /\ source = <<>>
    /\ clear = <<>>
    /\ position = TOP
    /\ k = 1
    /\ encoded = <<>>
    /\ count = 0
    /\ embedded = <<>>
    /\ decoded = <<>>
    /\ output = <<>>

\* The args object after the loop over process.argv in main.
ParsedArgs(av) ==
    [toHide      |-> av.toHide,
     fileSource  |-> av.src \in {"f", "unreadable", "both"},
     clearSource |-> IF av.src \in {"c", "both"} THEN av.text ELSE <<>>,
     position    |-> IF av.p.given THEN parseInt(av.p) ELSE Num(NTHLINES),
     k           |-> IF av.kopt.given THEN parseInt(av.kopt) ELSE Num(1)]

\* A string is truthy when it is not empty.
Truthy(str) == Len(str) > 0

\* checkArgs assigns args.position and args.k when args.encode is set.
CheckedArgs(a) ==
    [a EXCEPT !.position = IF Falsy(a.position) THEN Num(NTHLINES) ELSE @]

\* The result of checkArgs (encode is true; decode and clean are false).
checkArgs(a) ==
    /\ ~(Truthy(a.clearSource) /\ a.fileSource)
    /\ ~(~Truthy(a.clearSource) /\ ~a.fileSource)
    /\ Truthy(a.toHide)
    /\ ~CheckedArgs(a).position.nan
    /\ ~a.k.nan

\* args.k || 1
KOrOne(a) == IF Falsy(a.k) THEN 1 ELSE a.k.val

\* main up to the call of zeroEncode: the options are parsed and checked,
\* encode reads the file (zeroEncodeFile) or takes the string, and calls
\* zeroEncode with the arguments in the order the code passes them.
Main ==
    /\ pc = "main"
    /\ LET a == ParsedArgs(argv)
           c == CheckedArgs(a)
       IN  IF ~checkArgs(a)
           THEN /\ pc' = "invalid"
                /\ args' = a
                /\ UNCHANGED <<host, source, clear, position, k>>
           ELSE IF c.fileSource
           THEN IF argv.src = "unreadable"
                THEN /\ pc' = "throw"
                     /\ args' = c
                     /\ UNCHANGED <<host, source, clear, position, k>>
                ELSE /\ pc' = "zeroEncode"
                     /\ args' = c
                     /\ host' = argv.text
                     /\ source' = argv.text
                     /\ clear' = c.toHide
                     /\ position' = c.position.val
                     /\ k' = KOrOne(c)
           ELSE /\ pc' = "zeroEncode"
                /\ args' = c
                /\ host' = c.toHide
                /\ source' = c.toHide
                /\ clear' = c.clearSource
                /\ position' = c.position.val
                /\ k' = KOrOne(c)
    /\ UNCHANGED <<argv, encoded, count, embedded, decoded, output>>

\* encode after zeroEncode returned: console.log or writeFileSync
EncodeOutput ==
    /\ pc = "return"
    /\ output' = embedded
    /\ pc' = "exit"
    /\ UNCHANGED <<host, source, clear, position, k, encoded, count, embedded,
                   decoded, argv, args>>

\* case Position.TOP is left out: checkArgs replaces the position 0 by
\* NTHLINES, so that main never calls zeroEncode with Position.TOP.
NextCli ==
    \/ Main
    \/ ZeroEncodeBottom
    \/ ZeroEncodeRandom
    \/ RandomIteration
    \/ RandomReturn
    \/ ZeroEncodeNthLines
    \/ ZeroEncodeRandomInLine
    \/ ZeroEncodeDefault
    \/ EncodeOutput

SpecCli == InitCli /\ [][NextCli]_vars

(***************************************************************************)
(* Properties.                                                             *)
(***************************************************************************)
Done == pc = "return"

IsGlyph(c) == c = ZWSP \/ c = ZWNBSP

NoGlyph(s) == \A i \in 1..Len(s) : ~IsGlyph(s[i])

AllGlyph(s) == \A i \in 1..Len(s) : IsGlyph(s[i])

Latin1(s) == \A i \in 1..Len(s) : s[i] \in 0..255

\* The number of lines of a text: one more than its line breaks.
LineCount(s) == Cardinality({ i \in 1..Len(s) : s[i] = NL }) + 1

RECURSIVE Repeat(_, _)
Repeat(s, n) == IF n = 0 THEN <<>> ELSE s \o Repeat(s, n - 1)

\* The number of lines of the returned text that differ from the host's line
\* of the same index.
ChangedLines ==
    LET lines == Split(host)
        out   == Split(embedded)
    IN  Cardinality({ i \in 1..Len(lines) :
                        i > Len(out) \/ out[i] # lines[i] })

\* The number of copies of the glyph sequence that are embedded: one for TOP
\* and BOTTOM, k for RANDOM, one per line of 0-based index 0, k, 2k, ... for
\* RANDOMINLINE, and for NTHLINES one per line the sequence was appended to.
Copies ==
    CASE position \in {TOP, BOTTOM} -> 1
      [] position = RANDOM          -> k
      [] position = NTHLINES        -> ChangedLines
      [] position = RANDOMINLINE    -> ((LineCount(host) - 1) \div k) + 1

\* C1 (as claimed): for a payload with code points in 0..255, any host, any
\* of the five positions and any k >= 1, decoding the encoded text gives
\* the payload.
C1_RoundTrip ==
    (Done /\ position \in Position /\ k >= 1 /\ Latin1(clear))
        => zeroDecode(embedded) = clear

\* C1 (amended): for a payload with code points in 0..255 and a host without
\* glyph code points, decoding the text zeroEncode returns gives the payload
\* repeated once per embedded copy: once for TOP and BOTTOM, k times for
\* RANDOM, once per line of 0-based index 0, k, 2k, ... for RANDOMINLINE,
\* and for NTHLINES once per line the glyph sequence was appended to.
C1_RoundTripCopies ==
    (Done /\ position \in Position /\ k >= 1 /\ Latin1(clear) /\ NoGlyph(host))
        => /\ Len(Split(embedded)) = Len(Split(host))
           /\ zeroDecode(embedded) = Repeat(clear, Copies)

C1_Witness ==
    /\ Done /\ position = NTHLINES /\ NoGlyph(host)
    /\ clear = <<88, 255>> /\ Copies = 2
    /\ zeroDecode(embedded) = <<88, 255, 88, 255>>

\* C2: NTHLINES appends the glyph sequence to exactly every k-th line counted
\* from 1 (0-based indices k-1, 2k-1, ...) and leaves the other lines and the
\* line breaks unchanged.
C2_NthLinesEveryKth ==
    (Done /\ position = NTHLINES /\ k >= 1)
        => LET lines == Split(host)
               enc   == spaceEncode(clear)
           IN  embedded = Join([i \in 1..Len(lines) |->
                                  IF i % k = 0 THEN lines[i] \o enc
                                  ELSE lines[i]])

\* C3 (as claimed): for every host, payload and k, cleaning the text encoded
\* with TOP or BOTTOM gives the host.
C3_CleanRestoresHost ==
    (Done /\ position \in {TOP, BOTTOM}) => cleanString(embedded) = host

\* C3 (amended): for every host without glyph code points, every payload and
\* k, cleaning the text encoded with TOP or BOTTOM gives the host.
C3_CleanRestoresGlyphFreeHost ==
    (Done /\ position \in {TOP, BOTTOM} /\ NoGlyph(host))
        => cleanString(embedded) = host

C3_Witness ==
    /\ Done /\ position = BOTTOM /\ NoGlyph(host)
    /\ Len(host) > 0 /\ Len(clear) > 0 /\ Len(embedded) > Len(host)

\* C4 (as claimed): with RANDOM, an empty host or a host of glyph code points
\* only, no index is ever accepted and the call never returns.
C4_NeverAccepts ==
    (position = RANDOM /\ k >= 1 /\ (Len(host) = 0 \/ AllGlyph(host)))
        => (count = 0 /\ pc # "return")

\* C4 (amended): with RANDOM and a non-empty host of glyph code points only,
\* no index is ever accepted and the call never returns; with an empty host
\* the first iteration accepts index 0, so that with a non-empty payload and
\* k >= 2 one insertion is accepted and the call never returns.
C4_NeverAcceptsAllGlyph ==
    /\ (position = RANDOM /\ k >= 1 /\ Len(host) > 0 /\ AllGlyph(host))
          => (count = 0 /\ source = host /\ pc # "return")
    /\ (position = RANDOM /\ k >= 2 /\ Len(host) = 0 /\ Len(clear) > 0)
          => (count <= 1 /\ pc # "return")

C4_Witness ==
    /\ position = RANDOM /\ pc = "while"
    /\ Len(host) = 2 /\ host[1] = ZWSP /\ host[2] = ZWNBSP

\* C5: the command line encodes the -t text into the source text on both
\* paths: for a deterministic position the output is
\* zeroEncode(host, toHide, position, k) whether the host came with -c or
\* was read from the -f file.
C5_SameOutputBothPaths ==
    (pc = "exit" /\ position \in {TOP, BOTTOM, NTHLINES})
        => LET enc == spaceEncode(argv.toHide)
           IN  output = CASE position = TOP      -> enc \o argv.text
                          [] position = BOTTOM   -> argv.text \o enc
                          [] position = NTHLINES -> NthLines(argv.text, enc, k)

\* C6: the command line embeds with the position whose enumeration value is
\* the integer given to -p, for every value 0..4, and with NTHLINES when the
\* option is absent, and for no other value of 0..4 than 3.
C6_PositionOption ==
    (pc \in {"zeroEncode", "while", "return", "exit"})
        => /\ \A n \in Position : argv.p = Digits(n) => position = n
           /\ argv.p = Absent => position = NTHLINES
           /\ \A n \in Position \ {NTHLINES} :
                 argv.p = Digits(n) => position # NTHLINES

\* The hidden characters of a text, in order of appearance.
GlyphsOf(s) == SelectSeq(s, IsGlyph)

Bit(c) == IF c = ZWNBSP THEN 1 ELSE 0

\* C7: zeroDecode returns, for every text, floor(n/8) characters, n being the
\* number of glyphs; character j is the big-endian value of glyphs
\* 8(j-1)+1 .. 8j (U+200B = 0, U+FEFF = 1); the trailing n mod 8 glyphs are
\* dropped.
C7_DecodeGroups ==
    Done => LET g == GlyphsOf(source)
            IN  /\ Len(decoded) = Len(g) \div 8
                /\ \A j \in 1..Len(decoded) :
                      LET b(i) == Bit(g[8 * (j - 1) + i])
                      IN  decoded[j] = 128 * b(1) + 64 * b(2) + 32 * b(3)
                                       + 16 * b(4) + 8 * b(5) + 4 * b(6)
                                       + 2 * b(7) + b(8)

C7_Witness ==
    /\ Done /\ Len(decoded) = 1 /\ decoded[1] = 88
    /\ Len(GlyphsOf(source)) % 8 # 0

\* C8: with NTHLINES and a host of fewer than k lines, the host is returned
\* unchanged.
C8_FewerLinesUnchanged ==
    (Done /\ position = NTHLINES /\ k >= 1 /\ LineCount(host) < k)
        => embedded = host

C8_Witness ==
    /\ Done /\ position = NTHLINES /\ LineCount(host) < k
    /\ Len(host) > 0 /\ Len(clear) > 0

\* C9: RANDOMINLINE splices exactly one copy of the glyph sequence into each
\* line of 0-based index 0, k, 2k, ..., at an offset between 0 and the line's
\* length, and leaves the other lines and the number and order of lines
\* unchanged.
C9_RandomInLineStep ==
    (Done /\ position = RANDOMINLINE /\ k >= 1)
        => LET lines == Split(host)
               out   == Split(embedded)
               enc   == spaceEncode(clear)
           IN  /\ Len(out) = Len(lines)
               /\ \A i \in 1..Len(lines) :
                     IF (i - 1) % k = 0
                     THEN \E off \in 0..Len(lines[i]) :
                             out[i] = SubSeq(lines[i], 1, off) \o enc
                                      \o SubSeq(lines[i], off + 1, Len(lines[i]))
                     ELSE out[i] = lines[i]

C9_Witness ==
    /\ Done /\ position = RANDOMINLINE /\ k = 2
    /\ LineCount(host) >= 3 /\ Len(clear) > 0

RECURSIVE Unsplice(_, _)
\* The text left when every glyph met while reading s from the left starts a
\* whole copy of enc, which is skipped; <<0>> when one does not.
Unsplice(s, enc) ==
    IF Len(s) = 0 THEN <<>>
    ELSE IF IsGlyph(s[1])
         THEN IF Len(enc) <= Len(s) /\ SubSeq(s, 1, Len(enc)) = enc
              THEN Unsplice(SubSeq(s, Len(enc) + 1, Len(s)), enc)
              ELSE <<0>>
         ELSE <<s[1]>> \o Unsplice(Tail(s), enc)

\* C10: with RANDOM, a non-empty host without glyphs and a payload with code
\* points in 0..255, every accepted insertion is placed immediately before a
\* non-glyph code point: the text is always the host with `count` contiguous
\* whole copies spliced in, and the returned text decodes to the payload
\* repeated k times.
C10_RandomWholeCopies ==
    (position = RANDOM /\ pc \in {"while", "return"} /\ k >= 1
       /\ Len(host) > 0 /\ NoGlyph(host) /\ Latin1(clear))
        => /\ Unsplice(source, encoded) = host
           /\ Len(source) = Len(host) + count * Len(encoded)
           /\ ~IsGlyph(source[Len(source)])
           /\ Done => /\ count = k
                      /\ embedded = source
                      /\ zeroDecode(embedded) = Repeat(clear, k)

C10_Witness ==
    /\ Done /\ position = RANDOM /\ k = 2 /\ clear = <<88>>
    /\ Len(host) = 2 /\ NoGlyph(host)
    /\ IsGlyph(embedded[1]) /\ ~IsGlyph(embedded[9]) /\ IsGlyph(embedded[10])

====
